---- MODULE Spec2Model ----
(***************************************************************************)
(* Block synchronisation job of the indexer: the Syncer class (batch       *)
(* planner, range syncer, missing-blocks syncer), the xstate machine that  *)
(* drives it, and the exported syncBlocks job.                             *)
(*                                                                         *)
(* The node client (BlockRepository.latestBlockFromNode / blocksFromNode), *)
(* the block table (BlockRepository.insertMany inside db.transaction) and  *)
(* the queue (queue.push) are collaborators whose code is not part of the  *)
(* sources at hand; they are modelled from their interface description.    *)
(***************************************************************************)
EXTENDS Integers, Naturals, Sequences, FiniteSets, Bags, TLC

\* ------------------------------------------------------------------------
\* Bounds of the model
\* ------------------------------------------------------------------------
MaxHeight == 3
MaxOffset == 2
MaxLimit == 3

\* `undefined` / `null` of a numeric field (endCursor, cursor, lastBlock)
Undefined == -1

VARIABLES
  state,        \* state value of the machine
  actorStatus,  \* "active" | "error" : status of the actor's snapshot
  jobOutcome,   \* "notCalled" | "returned" | "thrown" : exported syncBlocks
  data,         \* job input (QueueData<Input>.data)
  context,      \* machine context
  isDevTest,    \* env.get('IS_DEV_TEST')
  nodeHeight,   \* height of the head block of the node
  store,        \* block table: height -> number of committed rows (0..2)
  queue,        \* bag of SYNC_TRANSACTIONS work items
  tasks,        \* syncBlocksRange invocations of the current invoke
  doneOrder,    \* indices of tasks, in the order their promises settled
  freshHead,    \* head awaited / fetched inside syncMissingBlocks
  covered       \* height -> number of catch-up windows executed over it

vars == << state, actorStatus, jobOutcome, data, context, isDevTest,
           nodeHeight, store, queue, tasks, doneOrder, freshHead,
           covered >>

Heights == 0 .. (MaxHeight - 1)

Min(a, b) == IF a < b THEN a ELSE b

Max(a, b) == IF a > b THEN a ELSE b

\* ------------------------------------------------------------------------
\* Results (EventsReturn | undefined)
\* ------------------------------------------------------------------------
UndefinedResult == [defined |-> FALSE, endCursor |-> Undefined, hasBlocks |-> FALSE]

EventsReturn(endCursor, hasBlocks) ==
  [defined |-> TRUE, endCursor |-> endCursor, hasBlocks |-> hasBlocks]

\* ------------------------------------------------------------------------
\* Syncer: batch planner
\* ------------------------------------------------------------------------
getLastBlockHeight(ctx) ==
  IF ctx.lastBlock = Undefined THEN 0 ELSE ctx.lastBlock

getIdsRange(ctx) ==
  LET lastHeight == getLastBlockHeight(ctx)
      from == ctx.cursor
      to == ctx.cursor + ctx.limit
  IN [from |-> from, to |-> IF to > lastHeight THEN lastHeight ELSE to]

\* Math.ceil(a / b) for b > 0
Ceil(a, b) == -((-a) \div b)

WindowFromOverlapping(idsRange, page, offset) ==
  idsRange.from + page * (offset - 1)

\* from of the window of a page (page counts from 0)
WindowFrom(idsRange, page, offset) ==
  idsRange.from + page * offset

WindowToUnclamped(from, offset, lastHeight) ==
  from + offset

\* to of a window: from + offset, clamped to lastHeight
WindowTo(from, offset, lastHeight) ==
  LET to == from + offset
  IN IF to > lastHeight THEN lastHeight ELSE to

createBatchEvents(ctx) ==
  LET idsRange == getIdsRange(ctx)
      lastHeight == getLastBlockHeight(ctx)
      diff == idsRange.to - idsRange.from
      numberOfBatches == Ceil(diff, ctx.offset)
  IN [ i \in 1 .. Max(0, numberOfBatches) |->
         LET from == WindowFrom(idsRange, i - 1, ctx.offset)
         IN [from |-> from, to |-> WindowTo(from, ctx.offset, lastHeight)] ]

\* ------------------------------------------------------------------------
\* Collaborators (modelled from their interface description)
\* ------------------------------------------------------------------------
\* number of rows blocksFromNode(count, from) answers with: the rows asked
\* for, as far as the chain of the node has them
blocksFromNode(count, from, head) == Max(0, Min(count, head - from))

\* endCursor of a page of k rows that starts at from
PageEndCursor(from, k) == IF k = 0 THEN Undefined ELSE from + k

insertManyDuplicating(rows, from, k) ==
  [ h \in Heights |->
      IF from <= h /\ h < from + k THEN Min(2, rows[h] + 1) ELSE rows[h] ]

\* repo.insertMany + commit: the rows of the page, keyed by height; a row
\* that is there already is kept as the one row of its height
insertMany(rows, from, k) ==
  [ h \in Heights |->
      IF from <= h /\ h < from + k THEN Max(1, rows[h]) ELSE rows[h] ]

\* work item of a window
WorkItem(t) == [from |-> t.from, to |-> t.to, blocks |-> t.blocks]

\* queue.push(SYNC_TRANSACTIONS, {blocks}); the bag keeps at most two copies
\* of an item (two stands for "more than one")
push(q, item) ==
  IF BagIn(item, q) /\ CopiesIn(item, q) >= 2
    THEN q
    ELSE q (+) SetToBag({item})

\* ------------------------------------------------------------------------
\* Tasks: one per syncBlocksRange invocation
\* ------------------------------------------------------------------------
NewTask(event, pc) ==
  [from |-> event.from, to |-> event.to, pc |-> pc,
   blocks |-> 0, endCursor |-> Undefined, hasBlocks |-> FALSE]

Fulfilled(t) == t.pc \in {"committed", "returned"}

ResultOf(t) == EventsReturn(t.endCursor, t.hasBlocks)

RoundResultByCompletion(ts, order) == ResultOf(ts[order[Len(order)]])

\* results[results.length - 1]
RoundResult(ts, order) == ResultOf(ts[Len(ts)])

syncBlocksOutputBusy(ctx, ts, order) ==
  IF ctx.cursor > 0 /\ Len(ts) = 0
    THEN EventsReturn(ctx.cursor, TRUE)
    ELSE IF Len(ts) = 0 THEN UndefinedResult ELSE RoundResult(ts, order)

\* value syncBlocks(ctx) resolves with, once every task is fulfilled
syncBlocksOutput(ctx, ts, order) ==
  IF ctx.cursor > 0 /\ Len(ts) = 0
    THEN EventsReturn(ctx.cursor, FALSE)
    ELSE IF Len(ts) = 0 THEN UndefinedResult ELSE RoundResult(ts, order)

AssignCursorNext(ctx, output) ==
  IF output.defined /\ output.endCursor # Undefined
    THEN output.endCursor + 1
    ELSE ctx.cursor

\* event.output?.endCursor ?? context.cursor
AssignCursor(ctx, output) ==
  IF output.defined /\ output.endCursor # Undefined
    THEN output.endCursor
    ELSE ctx.cursor

hasMoreEventsNever(ctx) == FALSE

\* guards: context.lastResult?.hasBlocks ?? false, Boolean(context.watch)
hasMoreEvents(ctx) == ctx.lastResult.defined /\ ctx.lastResult.hasBlocks

needToWatch(ctx) == ctx.watch

CheckingTargetWatchFirst(ctx) ==
  IF needToWatch(ctx) THEN "waiting"
  ELSE IF hasMoreEvents(ctx) THEN "syncingBlocks"
  ELSE "idle"

\* checking.always: the first transition whose guard holds
CheckingTarget(ctx) ==
  IF hasMoreEvents(ctx) THEN "syncingBlocks"
  ELSE IF needToWatch(ctx) THEN "waiting"
  ELSE "idle"

\* heights of the windows of a round, counted once more (capped at 2)
Cover(cov, ts) ==
  [ h \in Heights |->
      LET n == Cardinality({ i \in DOMAIN ts : ts[i].from <= h /\ h < ts[i].to })
      IN Min(2, cov[h] + n) ]

\* entry of syncingBlocks: syncBlocks(ctx) runs up to its first await
InvokeSyncBlocks(ctx) ==
  LET events == createBatchEvents(ctx)
  IN /\ tasks' = [ i \in DOMAIN events |->
                     NewTask(events[i], IF isDevTest THEN "pending" ELSE "fetch") ]
     /\ doneOrder' = << >>
     /\ covered' = IF isDevTest THEN covered ELSE Cover(covered, events)

\* ------------------------------------------------------------------------
\* Initial state: the machine as created by createActor(machine, {input})
\* ------------------------------------------------------------------------
Init ==
  /\ state = "idle"
  /\ actorStatus = "active"
  /\ jobOutcome = "notCalled"
  /\ data \in [cursor : {Undefined} \cup (0 .. MaxHeight),
               offset : 1 .. MaxOffset,
               watch : BOOLEAN]
  /\ \E limit \in 1 .. MaxLimit :
       context = [cursor |-> IF data.cursor = Undefined THEN 0 ELSE data.cursor,
                  offset |-> data.offset,
                  limit |-> limit,
                  lastBlock |-> Undefined,
                  lastResult |-> UndefinedResult,
                  watch |-> data.watch]
  /\ isDevTest \in BOOLEAN
  /\ nodeHeight \in 0 .. MaxHeight
  /\ store = [h \in Heights |-> 0]
  /\ queue = EmptyBag
  /\ tasks = << >>
  /\ doneOrder = << >>
  /\ freshHead = Undefined
  /\ covered = [h \in Heights |-> 0]

\* ------------------------------------------------------------------------
\* The exported job and the machine
\* ------------------------------------------------------------------------
\* export syncBlocks: createActor, subscribe, start, send START_SYNC, return
StartSync ==
  /\ jobOutcome = "notCalled"
  /\ state = "idle"
  /\ state' = "gettingLastBlock"
  /\ jobOutcome' = "returned"
  /\ UNCHANGED << actorStatus, data, context, isDevTest, nodeHeight, store,
                  queue, tasks, doneOrder, freshHead, covered >>

\* an invoked promise rejected and the state has no onError
UnhandledError ==
  actorStatus' = "error"

\* the job is run again with the same input after its machine failed (every
\* range of the failed run has settled): a new actor is created and started
JobRedelivered ==
  /\ actorStatus = "error"
  /\ \A i \in DOMAIN tasks : tasks[i].pc \in {"committed", "rejected"}
  /\ actorStatus' = "active"
  /\ state' = "gettingLastBlock"
  /\ jobOutcome' = "returned"
  /\ context' = [cursor |-> IF data.cursor = Undefined THEN 0 ELSE data.cursor,
                 offset |-> data.offset,
                 limit |-> context.limit,
                 lastBlock |-> Undefined,
                 lastResult |-> UndefinedResult,
                 watch |-> data.watch]
  /\ tasks' = << >>
  /\ doneOrder' = << >>
  /\ freshHead' = Undefined
  /\ covered' = [h \in Heights |-> 0]
  /\ UNCHANGED << data, isDevTest, nodeHeight, store, queue >>

\* gettingLastBlock.invoke.onDone
GettingLastBlockDone ==
  /\ actorStatus = "active"
  /\ state = "gettingLastBlock"
  /\ context' = [context EXCEPT !.lastBlock = nodeHeight]
  /\ state' = "syncingBlocks"
  /\ InvokeSyncBlocks(context')
  /\ UNCHANGED << actorStatus, jobOutcome, data, isDevTest, nodeHeight, store,
                  queue, freshHead >>

\* gettingLastBlock / resettingLastBlock: getLatestBlock rejects
GetLatestBlockRejected ==
  /\ actorStatus = "active"
  /\ state \in {"gettingLastBlock", "resettingLastBlock"}
  /\ UnhandledError
  /\ UNCHANGED << state, jobOutcome, data, context, isDevTest, nodeHeight,
                  store, queue, tasks, doneOrder, freshHead, covered >>

SyncingBlocksDoneRefreshesHead ==
  /\ actorStatus = "active"
  /\ state = "syncingBlocks"
  /\ \A i \in DOMAIN tasks : Fulfilled(tasks[i])
  /\ LET output == syncBlocksOutput(context, tasks, doneOrder)
     IN context' = [context EXCEPT !.lastResult = output,
                                   !.cursor = AssignCursor(context, output),
                                   !.lastBlock = nodeHeight]
  /\ state' = "checking"
  /\ UNCHANGED << actorStatus, jobOutcome, data, isDevTest, nodeHeight, store,
                  queue, tasks, doneOrder, freshHead, covered >>

\* syncingBlocks.invoke.onDone
SyncingBlocksDone ==
  /\ actorStatus = "active"
  /\ state = "syncingBlocks"
  /\ \A i \in DOMAIN tasks : Fulfilled(tasks[i])
  /\ LET output == syncBlocksOutput(context, tasks, doneOrder)
     IN context' = [context EXCEPT !.lastResult = output,
                                   !.cursor = AssignCursor(context, output)]
  /\ state' = "checking"
  /\ UNCHANGED << actorStatus, jobOutcome, data, isDevTest, nodeHeight, store,
                  queue, tasks, doneOrder, freshHead, covered >>

\* checking.always
Checking ==
  /\ actorStatus = "active"
  /\ state = "checking"
  /\ state' = CheckingTarget(context)
  /\ IF state' = "syncingBlocks"
       THEN InvokeSyncBlocks(context)
       ELSE UNCHANGED << tasks, doneOrder, covered >>
  /\ UNCHANGED << actorStatus, jobOutcome, data, context, isDevTest,
                  nodeHeight, store, queue, freshHead >>

WaitingAfterSkipsSync ==
  /\ actorStatus = "active"
  /\ state = "waiting"
  /\ state' = "resettingLastBlock"
  /\ tasks' = << >>
  /\ doneOrder' = << >>
  /\ freshHead' = Undefined
  /\ UNCHANGED << actorStatus, jobOutcome, data, context, isDevTest,
                  nodeHeight, store, queue, covered >>

\* waiting.after 1000; entry of syncingMissingBlocks awaits getLatestBlock
WaitingAfter ==
  /\ actorStatus = "active"
  /\ state = "waiting"
  /\ state' = "syncingMissingBlocks"
  /\ tasks' = << >>
  /\ doneOrder' = << >>
  /\ freshHead' = Undefined
  /\ UNCHANGED << actorStatus, jobOutcome, data, context, isDevTest,
                  nodeHeight, store, queue, covered >>

MissingRangeStale(ctx, lastBlock) ==
  [from |-> ctx.cursor, to |-> getLastBlockHeight(ctx)]

\* range of syncMissingBlocks: from the cursor to the height of the head
\* just fetched ({ ...ctx, lastBlock })
MissingRange(ctx, lastBlock) ==
  [from |-> ctx.cursor,
   to |-> getLastBlockHeight([ctx EXCEPT !.lastBlock = lastBlock])]

\* syncMissingBlocks: getLatestBlock resolved, syncBlocksRange is called
SyncMissingBlocksHead ==
  /\ actorStatus = "active"
  /\ state = "syncingMissingBlocks"
  /\ freshHead = Undefined
  /\ freshHead' = nodeHeight
  /\ LET event == MissingRange(context, nodeHeight)
     IN tasks' = << IF isDevTest
                      THEN [NewTask(event, "returned") EXCEPT
                              !.endCursor = event.to, !.hasBlocks = TRUE]
                      ELSE NewTask(event, "fetch") >>
  /\ doneOrder' = IF isDevTest THEN << 1 >> ELSE << >>
  /\ UNCHANGED << state, actorStatus, jobOutcome, data, context, isDevTest,
                  nodeHeight, store, queue, covered >>

\* syncMissingBlocks: getLatestBlock rejects
SyncMissingBlocksHeadRejected ==
  /\ actorStatus = "active"
  /\ state = "syncingMissingBlocks"
  /\ freshHead = Undefined
  /\ UnhandledError
  /\ UNCHANGED << state, jobOutcome, data, context, isDevTest, nodeHeight,
                  store, queue, tasks, doneOrder, freshHead, covered >>

\* syncingMissingBlocks.invoke.onDone
SyncingMissingBlocksDone ==
  /\ actorStatus = "active"
  /\ state = "syncingMissingBlocks"
  /\ freshHead # Undefined
  /\ Len(tasks) = 1
  /\ Fulfilled(tasks[1])
  /\ LET output == ResultOf(tasks[1])
     IN context' = [context EXCEPT !.lastResult = output,
                                   !.cursor = AssignCursor(context, output)]
  /\ state' = "resettingLastBlock"
  /\ UNCHANGED << actorStatus, jobOutcome, data, isDevTest, nodeHeight, store,
                  queue, tasks, doneOrder, freshHead, covered >>

ResettingLastBlockDoneRechecks ==
  /\ actorStatus = "active"
  /\ state = "resettingLastBlock"
  /\ context' = [context EXCEPT !.lastBlock = nodeHeight]
  /\ state' = "checking"
  /\ UNCHANGED << actorStatus, jobOutcome, data, isDevTest, nodeHeight, store,
                  queue, tasks, doneOrder, freshHead, covered >>

\* resettingLastBlock.invoke.onDone
ResettingLastBlockDone ==
  /\ actorStatus = "active"
  /\ state = "resettingLastBlock"
  /\ context' = [context EXCEPT !.lastBlock = nodeHeight]
  /\ state' = "waiting"
  /\ UNCHANGED << actorStatus, jobOutcome, data, isDevTest, nodeHeight, store,
                  queue, tasks, doneOrder, freshHead, covered >>

\* ------------------------------------------------------------------------
\* syncBlocksRange, one await at a time
\* ------------------------------------------------------------------------
\* the promise of task i rejects; Promise.all (or the awaiting caller)
\* rejects with it and the invoking state has no onError
Reject(i) ==
  /\ tasks' = [tasks EXCEPT ![i].pc = "rejected"]
  /\ doneOrder' = Append(doneOrder, i)
  /\ UnhandledError

\* IS_DEV_TEST: the for loop of syncBlocks calls the next syncBlocksRange,
\* which returns { endCursor: to, hasBlocks: true } without any I/O
RangeDevTest(i) ==
  /\ tasks[i].pc = "pending"
  /\ \A j \in 1 .. (i - 1) : tasks[j].pc = "returned"
  /\ tasks' = [tasks EXCEPT ![i].pc = "returned",
                            ![i].endCursor = tasks[i].to,
                            ![i].hasBlocks = TRUE]
  /\ doneOrder' = Append(doneOrder, i)
  /\ covered' = Cover(covered, << tasks[i] >>)
  /\ UNCHANGED << state, actorStatus, jobOutcome, data, context, isDevTest,
                  nodeHeight, store, queue, freshHead >>

\* await repo.blocksFromNode(to - from, from); db.connection().transaction
\* opens trx
RangeFetch(i) ==
  /\ tasks[i].pc = "fetch"
  /\ LET k == blocksFromNode(tasks[i].to - tasks[i].from, tasks[i].from,
                             nodeHeight)
     IN tasks' = [tasks EXCEPT ![i].pc = "trx",
                               ![i].blocks = k,
                               ![i].endCursor = PageEndCursor(tasks[i].from, k),
                               ![i].hasBlocks = (k > 0)]
  /\ UNCHANGED << state, actorStatus, jobOutcome, data, context, isDevTest,
                  nodeHeight, store, queue, doneOrder, freshHead, covered >>

\* await repo.insertMany(blocks, trx): rows are written inside trx, visible
\* at commit; await queue.push(SYNC_TRANSACTIONS, {blocks}): push does not
\* take trx, the item is in the queue at once
RangeInsertAndPush(i) ==
  /\ tasks[i].pc = "trx"
  /\ tasks' = [tasks EXCEPT ![i].pc = "commit"]
  /\ queue' = push(queue, WorkItem(tasks[i]))
  /\ UNCHANGED << state, actorStatus, jobOutcome, data, context, isDevTest,
                  nodeHeight, store, doneOrder, freshHead, covered >>

\* the callback returned: trx commits and the promise resolves
RangeCommit(i) ==
  /\ tasks[i].pc = "commit"
  /\ tasks' = [tasks EXCEPT ![i].pc = "committed"]
  /\ store' = insertMany(store, tasks[i].from, tasks[i].blocks)
  /\ doneOrder' = Append(doneOrder, i)
  /\ UNCHANGED << state, actorStatus, jobOutcome, data, context, isDevTest,
                  nodeHeight, queue, freshHead, covered >>

\* blocksFromNode, insertMany, queue.push or the commit throws: trx (if
\* open) rolls back, the promise rejects
RangeRejected(i) ==
  /\ tasks[i].pc \in {"fetch", "trx", "commit"}
  /\ Reject(i)
  /\ UNCHANGED << state, jobOutcome, data, context, isDevTest, nodeHeight,
                  store, queue, freshHead, covered >>

\* the chain of the node grows by one block
NodeProducesBlock ==
  /\ nodeHeight < MaxHeight
  /\ nodeHeight' = nodeHeight + 1
  /\ UNCHANGED << state, actorStatus, jobOutcome, data, context, isDevTest,
                  store, queue, tasks, doneOrder, freshHead,
                  covered >>

\* ------------------------------------------------------------------------
\* Properties
\* ------------------------------------------------------------------------
head == getLastBlockHeight(context)

initialCursor == IF data.cursor = Undefined THEN 0 ELSE data.cursor

BlocksOf(t) == { h \in Heights : t.from <= h /\ h < t.from + t.blocks }

Stored == { h \in Heights : store[h] > 0 }

\* C1: whenever a completed syncingBlocks / syncingMissingBlocks step raises
\* the cursor, every window of that step at or below the new cursor has
\* committed its transaction; a step that fails leaves the cursor alone.
C1_CursorOnlyPastCommitted ==
  [][ /\ (context'.cursor > context.cursor =>
            \A i \in DOMAIN tasks :
              tasks[i].to <= context'.cursor => tasks[i].pc = "committed")
      /\ (actorStatus' = "error" => context'.cursor = context.cursor) ]_vars

\* C2: a syncBlocksRange invocation that failed left neither blocks of its
\* window in the block table nor a work item of its window in the queue; a
\* committed window has its work item (exactly one in catch-up rounds).
C2_AllOrNothing ==
  \A i \in DOMAIN tasks :
    /\ (tasks[i].pc = "rejected" =>
          /\ ~BagIn(WorkItem(tasks[i]), queue)
          /\ BlocksOf(tasks[i]) \cap Stored = {})
    /\ (tasks[i].pc = "committed" =>
          /\ BagIn(WorkItem(tasks[i]), queue)
          /\ BlocksOf(tasks[i]) \subseteq Stored
          /\ (state \in {"syncingBlocks", "checking"} =>
                CopiesIn(WorkItem(tasks[i]), queue) = 1))

\* C3: with head >= cursor, the planned windows start at the cursor, are
\* non-empty, strictly increasing and each starts where the previous ends.
C3_WindowsContiguous ==
  (state = "syncingBlocks" /\ head >= context.cursor) =>
     /\ (Len(tasks) > 0 => tasks[1].from = context.cursor)
     /\ \A i \in DOMAIN tasks : tasks[i].from < tasks[i].to
     /\ \A i \in DOMAIN tasks :
          i > 1 => /\ tasks[i].from = tasks[i - 1].to
                   /\ tasks[i].from > tasks[i - 1].from
                   /\ tasks[i].to > tasks[i - 1].to

C3_Witness ==
  /\ state = "syncingBlocks"
  /\ head >= context.cursor
  /\ Len(tasks) = 3
  /\ context.cursor = 0

\* C4: with head >= cursor, the windows of a round cover exactly
\* [cursor, min(cursor + limit, head)): the last window ends at
\* min(cursor + limit, head).
C4_UnionIsBoundingRange ==
  (state = "syncingBlocks" /\ head >= context.cursor /\ Len(tasks) > 0) =>
     /\ tasks[1].from = context.cursor
     /\ tasks[Len(tasks)].to = Min(context.cursor + context.limit, head)

\* C5: no planned window ends above the head recorded in the context.
C5_WindowToAtMostHead ==
  state = "syncingBlocks" => \A i \in DOMAIN tasks : tasks[i].to <= head

C5_Witness ==
  /\ state = "syncingBlocks"
  /\ Len(tasks) = 2
  /\ tasks[2].from + context.offset > head
  /\ tasks[2].to = head

\* C6: in a parallel round, whatever the order in which the windows
\* settle, the recorded result and cursor are those of the last-planned
\* window.
C6_ResultOfLastPlanned ==
  (state = "checking" /\ ~isDevTest /\ Len(tasks) > 0) =>
     /\ context.lastResult = ResultOf(tasks[Len(tasks)])
     /\ context.cursor = tasks[Len(tasks)].endCursor

C6_Witness ==
  /\ state = "checking"
  /\ ~isDevTest
  /\ Len(tasks) = 3
  /\ doneOrder = << 3, 2, 1 >>
  /\ context.cursor = tasks[3].endCursor

\* C7 (as stated, for the default parallel mode in which ranges are really
\* fetched): every entry into waiting follows a latest result with
\* hasBlocks not true, every return to idle needs in addition watch off,
\* and with hasBlocks true checking goes to syncingBlocks.
C7_WaitingOnlyAfterNoBlocks ==
  [][ /\ (~isDevTest /\ state # "waiting" /\ state' = "waiting" =>
            ~hasMoreEvents(context'))
      /\ (state # "idle" /\ state' = "idle" =>
            ~hasMoreEvents(context') /\ ~needToWatch(context'))
      /\ (state = "checking" /\ state' # "checking" /\ hasMoreEvents(context) =>
            state' = "syncingBlocks") ]_vars

\* C7 (amended): waiting is entered from checking only with hasBlocks not
\* true (false, or no result) and watch on, idle is entered only from
\* checking with hasBlocks not true and watch off, with hasBlocks true
\* checking goes to syncingBlocks whatever watch is; the entry into waiting
\* from resettingLastBlock is unconditional.
C7_CheckingDecides ==
  [][ /\ (state # "waiting" /\ state' = "waiting" =>
            \/ state = "resettingLastBlock"
            \/ /\ state = "checking"
               /\ ~hasMoreEvents(context')
               /\ needToWatch(context'))
      /\ (state # "idle" /\ state' = "idle" =>
            /\ state = "checking"
            /\ ~hasMoreEvents(context')
            /\ ~needToWatch(context'))
      /\ (state = "checking" /\ state' # "checking" /\ hasMoreEvents(context) =>
            state' = "syncingBlocks") ]_vars

C7_Witness ==
  /\ state = "waiting"
  /\ context.lastResult.defined
  /\ ~context.lastResult.hasBlocks
  /\ context.watch
  /\ freshHead = Undefined
  /\ context.cursor > initialCursor

CaughtUp ==
  [h \in Heights |-> IF initialCursor <= h /\ h < head THEN 1 ELSE 0]

\* C8: started with cursor <= head, with the head unchanged and no failure,
\* the catch-up loop ends (in waiting or idle), and when checking leaves the
\* loop the cursor is the head and every height of [initial cursor, head)
\* was covered by exactly one executed window.
C8_CatchUpTerminates ==
  /\ [](( /\ state = "checking"
          /\ ~hasMoreEvents(context)
          /\ actorStatus = "active"
          /\ initialCursor <= head
          /\ nodeHeight = head )
        => /\ context.cursor = head
           /\ covered = CaughtUp)
  /\ (state = "gettingLastBlock"
        ~> (state \in {"waiting", "idle"} \/ actorStatus = "error"))

C8_Witness ==
  /\ state = "idle"
  /\ jobOutcome = "returned"
  /\ actorStatus = "active"
  /\ initialCursor = 0
  /\ head = MaxHeight
  /\ nodeHeight = head
  /\ context.cursor = head
  /\ covered = CaughtUp
  /\ context.limit < head

\* C9: after persistence threw on the second of three windows of a round
\* (the two others went through), the blocks of the first window are
\* stored, the cursor is the end of the first window and the job has thrown
\* the wrapped failure.
C9_SecondWindowFails ==
  ( /\ state = "syncingBlocks"
    /\ Len(tasks) = 3
    /\ tasks[2].pc = "rejected"
    /\ tasks[2].hasBlocks
    /\ tasks[1].pc = "committed"
    /\ tasks[3].pc = "committed" )
  => /\ BlocksOf(tasks[1]) \subseteq Stored
     /\ context.cursor = tasks[1].to
     /\ jobOutcome = "thrown"

\* C10: a failure of the machine has reached the caller of the job as the
\* thrown error 'Sync block attempt failed!'.
C10_FailureReachesCaller ==
  actorStatus = "error" => jobOutcome = "thrown"

\* C11: no completion of syncingBlocks or syncingMissingBlocks assigns a
\* cursor smaller than the previous one.
C11_CursorMonotonic ==
  [][ actorStatus = "active" => context'.cursor >= context.cursor ]_vars

EmptyRange(ctx) == getIdsRange(ctx).to - getIdsRange(ctx).from <= 0

C13_ModesAgree ==
  (state = "checking" /\ actorStatus = "active" /\ Len(tasks) > 0) =>
     /\ \A i \in DOMAIN tasks :
          /\ { h \in Heights : tasks[i].from <= h /\ h < tasks[i].to }
               \subseteq Stored
          /\ BagIn([from |-> tasks[i].from, to |-> tasks[i].to,
                    blocks |-> tasks[i].to - tasks[i].from], queue)
     /\ context.lastResult = EventsReturn(tasks[Len(tasks)].to, TRUE)
     /\ context.cursor = tasks[Len(tasks)].to

WatchStates == {"waiting", "syncingMissingBlocks", "resettingLastBlock"}

\* C14: with no invocation failing, the machine cycles waiting ->
\* syncingMissingBlocks -> resettingLastBlock -> waiting for ever: every
\* state of the cycle is eventually followed by the next one, a tick runs
\* exactly one range sync, and the head of the context is replaced exactly
\* once per tick, by resettingLastBlock.
C14_WatchLoop ==
  /\ [][ actorStatus = "active" =>
           /\ (state = "waiting" /\ state' # state =>
                 state' = "syncingMissingBlocks")
           /\ (state = "syncingMissingBlocks" /\ state' # state =>
                 /\ state' = "resettingLastBlock"
                 /\ Len(tasks) = 1
                 /\ Fulfilled(tasks[1])
                 /\ tasks' = tasks)
           /\ (state = "resettingLastBlock" /\ state' # state =>
                 state' = "waiting")
           /\ (state \in WatchStates /\ context'.lastBlock # context.lastBlock =>
                 state = "resettingLastBlock" /\ state' = "waiting")
           /\ (state = "syncingMissingBlocks" /\ Len(tasks) = 1 =>
                 /\ Len(tasks') = 1
                 /\ tasks'[1].from = tasks[1].from
                 /\ tasks'[1].to = tasks[1].to) ]_vars
  /\ (state = "waiting"
        ~> (state = "syncingMissingBlocks" \/ actorStatus = "error"))
  /\ (state = "syncingMissingBlocks"
        ~> (state = "resettingLastBlock" \/ actorStatus = "error"))
  /\ (state = "resettingLastBlock"
        ~> (state = "waiting" \/ actorStatus = "error"))

C14_Witness ==
  /\ state = "waiting"
  /\ actorStatus = "active"
  /\ context.watch
  /\ freshHead # Undefined
  /\ Len(tasks) = 1
  /\ tasks[1].pc = "committed"
  /\ tasks[1].blocks > 0

\* C16: a watch tick runs one range sync, from the cursor of the context to
\* the head fetched in that tick, and its completion records the result of
\* that sync as lastResult and its endCursor as cursor (the cursor is kept
\* when the fresh head equals it, the range being empty).
C16_TickSyncsFreshGap ==
  /\ []((state = "syncingMissingBlocks" /\ freshHead # Undefined) =>
          /\ Len(tasks) = 1
          /\ tasks[1].from = context.cursor
          /\ tasks[1].to = freshHead)
  /\ [][ (state = "syncingMissingBlocks" /\ state' = "resettingLastBlock") =>
           /\ context'.lastResult = ResultOf(tasks[1])
           /\ context'.cursor =
                IF tasks[1].endCursor # Undefined
                  THEN tasks[1].endCursor
                  ELSE context.cursor
           /\ (freshHead = context.cursor =>
                 /\ tasks[1].to - tasks[1].from = 0
                 /\ context'.cursor = context.cursor) ]_vars

C16_Witness ==
  /\ state = "resettingLastBlock"
  /\ actorStatus = "active"
  /\ ~isDevTest
  /\ freshHead > head
  /\ tasks[1].to = freshHead
  /\ context.cursor = freshHead
  /\ context.lastResult.hasBlocks

\* C17: every fetch request asks the node for at least one and at most
\* offset blocks (requests are issued in parallel mode only).
C17_FetchCountBounded ==
  ~isDevTest =>
     \A i \in DOMAIN tasks :
       /\ tasks[i].to - tasks[i].from >= 1
       /\ tasks[i].to - tasks[i].from <= context.offset

\* C18 (as stated): the head of the context is replaced only when
\* gettingLastBlock or resettingLastBlock completes, and the machine returns
\* to idle with the cursor equal to the head observed at the start.
C18_HeadFrameAndIdleAtHead ==
  [][ actorStatus = "active" =>
        /\ (context'.lastBlock # context.lastBlock =>
              \/ (state = "gettingLastBlock" /\ state' = "syncingBlocks")
              \/ (state = "resettingLastBlock" /\ state' = "waiting"))
        /\ (state = "checking" /\ state' = "idle" =>
              context'.cursor = getLastBlockHeight(context')) ]_vars

\* C18 (amended): the head of the context is replaced only when
\* gettingLastBlock or resettingLastBlock completes, and, when the initial
\* cursor is at most the head observed at the start, the machine returns to
\* idle with the cursor equal to that head, even if the chain grew.
C18_HeadFrame ==
  [][ actorStatus = "active" =>
        /\ (context'.lastBlock # context.lastBlock =>
              \/ (state = "gettingLastBlock" /\ state' = "syncingBlocks")
              \/ (state = "resettingLastBlock" /\ state' = "waiting"))
        /\ (state = "checking" /\ state' = "idle"
              /\ initialCursor <= getLastBlockHeight(context) =>
              context'.cursor = getLastBlockHeight(context')) ]_vars

C18_Witness ==
  /\ state = "idle"
  /\ jobOutcome = "returned"
  /\ actorStatus = "active"
  /\ initialCursor < head
  /\ context.cursor = head
  /\ nodeHeight > head

\* C19: once in waiting the machine stays in waiting, syncingMissingBlocks
\* and resettingLastBlock, it plans no round any more (at most the one range
\* of a tick is in flight, however large the gap), and with watch on it
\* never goes back to idle once started.
C19_WatchIsForever ==
  [][ actorStatus = "active" =>
        /\ (state \in WatchStates => state' \in WatchStates)
        /\ (state \in WatchStates /\ tasks' # tasks => Len(tasks') <= 1)
        /\ (context.watch /\ state # "idle" => state' # "idle") ]_vars

C19_Witness ==
  /\ state = "syncingMissingBlocks"
  /\ actorStatus = "active"
  /\ Len(tasks) = 1
  /\ tasks[1].to - tasks[1].from > context.offset

highestHead == Max(context.lastBlock, freshHead)

\* C20: once a head was fetched that is not below the initial cursor, the
\* cursor is at most the highest head fetched so far (heads never decrease,
\* so this covers an initial cursor at most the first head).
C20_CursorAtMostHead ==
  (context.lastBlock # Undefined /\ initialCursor <= highestHead) =>
     context.cursor <= highestHead

C20_Witness ==
  /\ state = "resettingLastBlock"
  /\ actorStatus = "active"
  /\ initialCursor <= head
  /\ freshHead > head
  /\ context.cursor = freshHead

MachineStep ==
  \/ StartSync
  \/ GettingLastBlockDone
  \/ SyncingBlocksDone
  \/ Checking
  \/ WaitingAfter
  \/ SyncMissingBlocksHead
  \/ SyncingMissingBlocksDone
  \/ ResettingLastBlockDone

RangeStep ==
  \E i \in DOMAIN tasks :
    \/ RangeDevTest(i)
    \/ RangeFetch(i)
    \/ RangeInsertAndPush(i)
    \/ RangeCommit(i)

FaultStep ==
  \/ GetLatestBlockRejected
  \/ SyncMissingBlocksHeadRejected
  \/ \E i \in DOMAIN tasks : RangeRejected(i)

Next ==
  \/ MachineStep
  \/ RangeStep
  \/ FaultStep
  \/ NodeProducesBlock

Spec == Init /\ [][Next]_vars

\* the job against an unchanged node, run again when its machine failed
NextRerun ==
  \/ MachineStep
  \/ RangeStep
  \/ FaultStep
  \/ JobRedelivered

RerunSpec == Init /\ [][NextRerun]_vars

\* every promise settles and every enabled transition is taken
FairSpec == Spec /\ WF_vars(MachineStep) /\ WF_vars(RangeStep)

====
